---- MODULE Spec2Model ----
(***************************************************************************)
(* The config flow of the Remootio integration                             *)
(* (homeassistant/components/remootio/config_flow.py): the user step       *)
(* validates the submitted fields against INPUT_VALIDATION_SCHEMA,         *)
(* contacts the device for its serial number and either shows the form     *)
(* again, aborts, or creates a config entry.                               *)
(*                                                                         *)
(* Strings the code inspects character by character (host, the two keys,   *)
(* the serial number, the title) are sequences of one-character strings;   *)
(* dictionaries are functions whose DOMAIN is the set of keys present.     *)
(* Submitted values are str already, so vol.Coerce(str) leaves them as     *)
(* they are.                                                               *)
(***************************************************************************)
EXTENDS Integers, Sequences, FiniteSets, TLC

VARIABLES
    entries,         \* the platform's persisted config entries
    result,          \* FlowResult of the flow's last async_step_user call
    unique_id,       \* the flow's unique id (async_set_unique_id)
    form_displayed,  \* ConfigFlow.form_displayed
    call,            \* arguments and device behaviour of the last call
    contact,         \* ConnectionOptions handed to get_serial_number in the last call
    log,             \* records logged by the last call
    steps,           \* number of async_step_user calls so far
    flow_start       \* the entries persisted when the flow was started

vars ==
    <<entries, result, unique_id, form_displayed, call, contact, log, steps, flow_start>>

\* ------------------------------------------------------------------ bounds

\* async_step_user calls in one run of the model
MaxSteps == 2

\* ------------------------------------------------------------- constants

CONF_HOST == "host"
CONF_API_SECRET_KEY == "secret_key"
CONF_API_AUTH_KEY == "auth_key"
CONF_DEVICE_CLASS == "device_class"
CONF_SERIAL_NUMBER == "serial_number"
CONF_TITLE == "title"

DEVICE_CLASS_GARAGE == "garage"
DEVICE_CLASS_GATE == "gate"

DEVICE_NAME == <<"R","e","m","o","o","t","i","o"," ","D","e","v","i","c","e">>

\* length the two key patterns ask for
KeyLen == 64

\* the keys of INPUT_VALIDATION_SCHEMA
SchemaFields == {CONF_HOST, CONF_API_SECRET_KEY, CONF_API_AUTH_KEY, CONF_DEVICE_CLASS}

EmptyDict == [k \in {} |-> ""]
NoStr == <<>>

\* --------------------------------------------------------------- strings

LowerLetters ==
    <<"a","b","c","d","e","f","g","h","i","j","k","l","m",
      "n","o","p","q","r","s","t","u","v","w","x","y","z">>

UpperLetters ==
    <<"A","B","C","D","E","F","G","H","I","J","K","L","M",
      "N","O","P","Q","R","S","T","U","V","W","X","Y","Z">>

Digits == {"0","1","2","3","4","5","6","7","8","9"}

LowerSet == {LowerLetters[i] : i \in DOMAIN LowerLetters}

UpperSet == {UpperLetters[i] : i \in DOMAIN UpperLetters}

UpperAlnum == UpperSet \cup Digits

Alnum == LowerSet \cup UpperSet \cup Digits

IsUpperAlnum(c) == c \in UpperAlnum

IsAlnum(c) == c \in Alnum

\* the upper-case letter of each lower-case letter
UpperMap ==
    [c \in LowerSet |->
        UpperLetters[CHOOSE i \in DOMAIN LowerLetters : LowerLetters[i] = c]]

UpperChar(c) == IF c \in LowerSet THEN UpperMap[c] ELSE c

\* Upper left out of the chain
UpperLeftOut(s) == s

\* vol.Upper: str.upper
Upper(s) == [i \in 1..Len(s) |-> UpperChar(s[i])]

Rep(c, n) == [i \in 1..n |-> c]

Contains(t, s) ==
    \E i \in 0..(Len(t) - Len(s)) : SubSeq(t, i + 1, i + Len(s)) = s

\* ---------------------------------------------------- the field patterns

\* CONNECTION_OPTION_REGEX_HOST: an IP address or an RFC-1123 host name, that
\* is dot-separated labels of letters, digits and inner hyphens (the dotted
\* quad is one such name)
MatchHost(s) ==
    /\ Len(s) > 0
    /\ \A i \in 1..Len(s) : IsAlnum(s[i]) \/ s[i] \in {"-", "."}
    /\ IsAlnum(s[1]) /\ IsAlnum(s[Len(s)])
    /\ \A i \in 1..Len(s) :
           s[i] = "." => i > 1 /\ i < Len(s) /\ IsAlnum(s[i-1]) /\ IsAlnum(s[i+1])

\* CONNECTION_OPTION_REGEX_API_SECRET_KEY / _AUTH_KEY: a sequence of 64
\* characters of numbers and (upper-cased) english letters
MatchKey(s) ==
    /\ Len(s) = KeyLen
    /\ \A i \in 1..Len(s) : IsUpperAlnum(s[i])

InDeviceClasses(v) == v \in {DEVICE_CLASS_GARAGE, DEVICE_CLASS_GATE}

\* ---------------------------------------------------------- the inputs

HostGood == <<"g","w",".","l","a","n">>
HostBad == <<"-","g","w">>

KeyUpper == [i \in 1..KeyLen |-> IF i % 2 = 0 THEN "7" ELSE "A"]
KeyLower == [i \in 1..KeyLen |-> IF i % 2 = 0 THEN "7" ELSE "a"]
KeyShort == Rep("A", KeyLen - 1)
KeyLong == Rep("A", KeyLen + 1)
KeyPunct == Rep("A", KeyLen - 1) \o <<"-">>

AuthUpper == Rep("B", KeyLen)
AuthLower == Rep("b", KeyLen)
AuthBad == <<"b","a","d">>

Opt(k, values) == {EmptyDict} \cup {k :> v : v \in values}

Only(k, values) == {k :> v : v \in values}

\* every field left out, given a value its pattern accepts, or given one it
\* rejects
SubmittedFields ==
    {h @@ s @@ a @@ d :
        h \in Opt(CONF_HOST, {HostGood, HostBad}),
        s \in Opt(CONF_API_SECRET_KEY, {KeyUpper, KeyShort}),
        a \in Opt(CONF_API_AUTH_KEY, {AuthLower, AuthBad}),
        d \in Opt(CONF_DEVICE_CLASS, {DEVICE_CLASS_GATE, "door"})}

\* the other shapes of a key, beside the other fields
SubmittedKeys ==
    {h @@ s @@ a @@ d :
        h \in Only(CONF_HOST, {HostGood}),
        s \in Only(CONF_API_SECRET_KEY, {KeyLower, KeyLong, KeyPunct}),
        a \in Opt(CONF_API_AUTH_KEY, {AuthUpper, AuthBad}),
        d \in Opt(CONF_DEVICE_CLASS, {DEVICE_CLASS_GARAGE, "door"})}

\* a field the schema does not know, alone and beside the other fields
SubmittedExtra ==
    {h @@ s @@ a @@ d @@ x :
        h \in Opt(CONF_HOST, {HostGood}),
        s \in Only(CONF_API_SECRET_KEY, {KeyUpper, KeyLower}),
        a \in Only(CONF_API_AUTH_KEY, {AuthLower}),
        d \in Opt(CONF_DEVICE_CLASS, {DEVICE_CLASS_GATE, "door"}),
        x \in Only("note", {<<"x">>})}
    \cup Only("note", {<<"x">>})

\* the dictionaries a user submits
Submitted == SubmittedFields \cup SubmittedKeys \cup SubmittedExtra

\* the values submitted for the schema's fields, with the field; the default
\* of the device class is among them
SubmittedValues ==
    UNION {{<<k, d[k]>> : k \in SchemaFields \cap DOMAIN d} : d \in Submitted}
    \cup {<<CONF_DEVICE_CLASS, DEVICE_CLASS_GARAGE>>}

\* ------------------------------------------------ INPUT_VALIDATION_SCHEMA

\* vol.Required(CONF_DEVICE_CLASS, default=DEVICE_CLASS_GARAGE): the default is
\* inserted into the schema's own copy of the mapping, never into `data`
WithDefaults(data) ==
    IF CONF_DEVICE_CLASS \in DOMAIN data
    THEN data
    ELSE data @@ (CONF_DEVICE_CLASS :> DEVICE_CLASS_GARAGE)

\* what the vol.All chain of a field makes of a submitted value
FieldOut(k, v) ==
    IF k \in {CONF_API_SECRET_KEY, CONF_API_AUTH_KEY} THEN Upper(v) ELSE v

\* whether the vol.All chain of a field accepts a submitted value
FieldValid(k, v) ==
    CASE k = CONF_HOST -> MatchHost(FieldOut(k, v))
      [] k = CONF_API_SECRET_KEY -> MatchKey(FieldOut(k, v))
      [] k = CONF_API_AUTH_KEY -> MatchKey(FieldOut(k, v))
      [] k = CONF_DEVICE_CLASS -> InDeviceClasses(FieldOut(k, v))

\* FieldValid, worked out once for each submitted value
Accepted == {kv \in SubmittedValues : FieldValid(kv[1], kv[2])}

\* SchemaErrors stopping at the first error
SchemaErrorsFirstOnly(data) ==
    LET m == WithDefaults(data)
        bad == {k \in SchemaFields : k \notin DOMAIN m \/ <<k, m[k]>> \notin Accepted}
        first == IF bad = {} THEN {} ELSE {CHOOSE k \in bad : TRUE}
    IN [k \in first |->
           IF k \notin DOMAIN m THEN "RequiredFieldInvalid" ELSE "AllInvalid"]

\* MultipleInvalid.errors, by path[0]: every key is validated, the errors are
\* collected, and the required keys left unmatched are added at the end
SchemaErrors(data) ==
    LET m == WithDefaults(data)
        bad == {k \in SchemaFields : k \notin DOMAIN m \/ <<k, m[k]>> \notin Accepted}
    IN [k \in bad |->
           IF k \notin DOMAIN m THEN "RequiredFieldInvalid" ELSE "AllInvalid"]

\* the mapping the schema returns: its four keys, transformed; extra keys are
\* removed (extra=REMOVE_EXTRA)
SchemaOutput(data) ==
    LET m == WithDefaults(data)
    IN [k \in SchemaFields \cap DOMAIN m |-> FieldOut(k, m[k])]

INPUT_VALIDATION_SCHEMA(data) ==
    LET e == SchemaErrors(data)
    IN [errors |-> e,
        out |-> IF e = EmptyDict THEN SchemaOutput(data) ELSE EmptyDict]

\* ---------------------------------------------------------- the device

Serials == {<<"S","1">>, <<"S","2">>, <<"X","9">>}

\* the serial numbers the capability lookup accepts
SupportedSerials == {<<"S","1">>, <<"S","2">>}

\* what the device does when contacted in a step: the connection is
\* established or fails, and a device that connects reports its serial number
Devices ==
    {[connect |-> "ok", serial |-> s] : s \in Serials}
    \cup {[connect |-> c, serial |-> NoStr] :
             c \in {"RemootioClientConnectionEstablishmentError",
                    "RemootioClientAuthenticationError",
                    "Exception"}}

ConnectionOptions(host, api_secret_key, api_auth_key) ==
    [host |-> host, api_secret_key |-> api_secret_key, api_auth_key |-> api_auth_key]

\* utils.get_serial_number: connect, ask for the serial number, look the
\* device up; returns the serial number or raises
get_serial_number(dev, connection_options) ==
    IF dev.connect # "ok"
    THEN [raised |-> dev.connect, serial |-> NoStr]
    ELSE IF dev.serial \notin SupportedSerials
         THEN [raised |-> "UnsupportedRemootioDeviceError", serial |-> NoStr]
         ELSE [raised |-> "none", serial |-> dev.serial]

\* ------------------------------------------------------- validate_input

\* Title with the host left out
TitleWithoutHost(host, device_serial_number) ==
    DEVICE_NAME \o <<" ","(","S","/","N",":"," ">> \o device_serial_number \o <<")">>

Title(host, device_serial_number) ==
    DEVICE_NAME \o <<" ","(","H","o","s","t",":"," ">> \o host
        \o <<",", " ", "S", "/", "N", ":", " ">> \o device_serial_number \o <<")">>

NoInfo == [title |-> NoStr, serial_number |-> NoStr]

\* validate_input asking the device before it applies the schema
validate_input_contact_first(data, dev) ==
    LET validated == INPUT_VALIDATION_SCHEMA(data)
        given == {CONF_HOST, CONF_API_SECRET_KEY, CONF_API_AUTH_KEY} \subseteq DOMAIN data
        connection_options ==
            ConnectionOptions(data[CONF_HOST], data[CONF_API_SECRET_KEY],
                              data[CONF_API_AUTH_KEY])
        got == get_serial_number(dev, connection_options)
    IN IF validated.errors # EmptyDict
       THEN [raised |-> "MultipleInvalid", errors |-> validated.errors,
             info |-> NoInfo,
             contact |-> IF given THEN <<connection_options>> ELSE <<>>]
       ELSE [raised |-> got.raised, errors |-> EmptyDict,
             info |-> IF got.raised = "none"
                      THEN [title |-> Title(data[CONF_HOST], got.serial),
                            serial_number |-> got.serial]
                      ELSE NoInfo,
             contact |-> <<connection_options>>]

validate_input(data, dev) ==
    LET validated == INPUT_VALIDATION_SCHEMA(data)   \* the returned mapping is dropped
    IN IF validated.errors # EmptyDict
       THEN [raised |-> "MultipleInvalid", errors |-> validated.errors,
             info |-> NoInfo, contact |-> <<>>]
       ELSE LET connection_options ==
                    ConnectionOptions(data[CONF_HOST], data[CONF_API_SECRET_KEY],
                                      data[CONF_API_AUTH_KEY])
                got == get_serial_number(dev, connection_options)
            IN [raised |-> got.raised, errors |-> EmptyDict,
                info |-> IF got.raised = "none"
                         THEN [title |-> Title(data[CONF_HOST], got.serial),
                               serial_number |-> got.serial]
                         ELSE NoInfo,
                contact |-> <<connection_options>>]

\* ------------------------------------------------------- the platform

\* _LOGGER.<level>(...)
Logged(level, msg) == [level |-> level, msg |-> msg]

NoResult ==
    [type |-> "none", reason |-> "", errors |-> EmptyDict, defaults |-> EmptyDict,
     title |-> NoStr, data |-> EmptyDict]

async_abort(reason) ==
    [type |-> "abort", reason |-> reason, errors |-> EmptyDict, defaults |-> EmptyDict,
     title |-> NoStr, data |-> EmptyDict]

async_create_entry(title, data) ==
    [type |-> "create_entry", reason |-> "", errors |-> EmptyDict,
     defaults |-> EmptyDict, title |-> title, data |-> data]

\* FormDefaults taken from the validated values instead of the submitted ones
FormDefaultsValidated(user_input) ==
    LET given == [k \in SchemaFields \cap DOMAIN user_input |->
                     FieldOut(k, user_input[k])]
    IN given @@ (CONF_DEVICE_CLASS :> DEVICE_CLASS_GARAGE)

\* the default= of the redisplayed form's data_schema: user_input.get(key,
\* vol.UNDEFINED) for the three text fields, user_input.get(CONF_DEVICE_CLASS,
\* DEVICE_CLASS_GARAGE) for the device class
FormDefaults(user_input) ==
    LET given == [k \in SchemaFields \cap DOMAIN user_input |-> user_input[k]]
    IN given @@ (CONF_DEVICE_CLASS :> DEVICE_CLASS_GARAGE)

async_show_form(user_input, errors) ==
    [type |-> "form", reason |-> "", errors |-> errors,
     defaults |-> FormDefaults(user_input), title |-> NoStr, data |-> EmptyDict]

\* ConfigFlow._abort_if_unique_id_configured(updates): an entry with the flow's
\* unique id makes the flow abort, after `updates` are merged into that
\* entry's data
AbortIfUniqueIdConfigured(cur, uid, updates) ==
    [abort |-> \E e \in cur : e.unique_id = uid,
     entries |-> {IF e.unique_id = uid
                  THEN [e EXCEPT !.data = updates @@ e.data]
                  ELSE e : e \in cur}]

\* the flow manager stores the entry of a create_entry result under the
\* flow's unique id
AddEntry(cur, uid, res) ==
    cur \cup {[unique_id |-> uid, title |-> res.title, data |-> res.data]}

\* ------------------------------------------------------ async_step_user

\* errors[str(error.path[0])] of one schema error
FieldErrorCode(path, error) ==
    IF error = "RequiredFieldInvalid"
    THEN path \o "_required"
    ELSE path \o "_invalid"

FieldErrors(errs) == [k \in DOMAIN errs |-> FieldErrorCode(k, errs[k])]

\* BaseError with the codes of the two client errors exchanged
BaseErrorSwapped(raised) ==
    CASE raised = "RemootioClientConnectionEstablishmentError" ->
             [code |-> "invalid_auth",
              logged |-> Logged("error", "Can't connect to Remootio device.")]
      [] raised = "RemootioClientAuthenticationError" ->
             [code |-> "cannot_connect",
              logged |-> Logged("error", "Can't authenticate by the Remootio device.")]
      [] OTHER ->
             [code |-> "unknown",
              logged |-> Logged("exception", "Unexpected exception/error.")]

\* BaseError with the unexpected failure kept out of the error log
BaseErrorQuiet(raised) ==
    CASE raised = "RemootioClientConnectionEstablishmentError" ->
             [code |-> "cannot_connect",
              logged |-> Logged("error", "Can't connect to Remootio device.")]
      [] raised = "RemootioClientAuthenticationError" ->
             [code |-> "invalid_auth",
              logged |-> Logged("error", "Can't authenticate by the Remootio device.")]
      [] OTHER ->
             [code |-> "unknown",
              logged |-> Logged("debug", "Unexpected exception/error.")]

\* errors["base"] and the log record of a failure of the device contact
BaseError(raised) ==
    CASE raised = "RemootioClientConnectionEstablishmentError" ->
             [code |-> "cannot_connect",
              logged |-> Logged("error", "Can't connect to Remootio device.")]
      [] raised = "RemootioClientAuthenticationError" ->
             [code |-> "invalid_auth",
              logged |-> Logged("error", "Can't authenticate by the Remootio device.")]
      [] OTHER ->
             [code |-> "unknown",
              logged |-> Logged("exception", "Unexpected exception/error.")]

\* Finish without the check for an entry with the same unique id
FinishUnchecked(self, user_input, info, cur) ==
    LET uid == info.serial_number
        data == (CONF_SERIAL_NUMBER :> info.serial_number) @@ user_input
        res == async_create_entry(info.title, data)
    IN [result |-> res, entries |-> AddEntry(cur, uid, res),
        unique_id |-> uid, form_displayed |-> self.form_displayed]

\* Finish creating the entry before it looks for one with the same unique id
FinishAddsBeforeCheck(self, user_input, info, cur) ==
    LET uid == info.serial_number
        chk == AbortIfUniqueIdConfigured(cur, uid, user_input)
        data == (CONF_SERIAL_NUMBER :> info.serial_number) @@ user_input
        res == async_create_entry(info.title, data)
    IN IF chk.abort
       THEN [result |-> async_abort("already_configured"),
             entries |-> AddEntry(chk.entries, uid, res),
             unique_id |-> uid, form_displayed |-> self.form_displayed]
       ELSE [result |-> res, entries |-> AddEntry(cur, uid, res),
             unique_id |-> uid, form_displayed |-> self.form_displayed]

\* Finish calling _abort_if_unique_id_configured without updates
FinishNoUpdates(self, user_input, info, cur) ==
    LET uid == info.serial_number
        chk == AbortIfUniqueIdConfigured(cur, uid, EmptyDict)
        data == (CONF_SERIAL_NUMBER :> info.serial_number) @@ user_input
        res == async_create_entry(info.title, data)
    IN IF chk.abort
       THEN [result |-> async_abort("already_configured"), entries |-> chk.entries,
             unique_id |-> uid, form_displayed |-> self.form_displayed]
       ELSE [result |-> res, entries |-> AddEntry(cur, uid, res),
             unique_id |-> uid, form_displayed |-> self.form_displayed]

\* the else: branch of the try, lines 141-146
Finish(self, user_input, info, cur) ==
    LET uid == info.serial_number
        chk == AbortIfUniqueIdConfigured(cur, uid, user_input)
        data == (CONF_SERIAL_NUMBER :> info.serial_number) @@ user_input
        res == async_create_entry(info.title, data)
    IN IF chk.abort
       THEN [result |-> async_abort("already_configured"), entries |-> chk.entries,
             unique_id |-> uid, form_displayed |-> self.form_displayed]
       ELSE [result |-> res, entries |-> AddEntry(cur, uid, res),
             unique_id |-> uid, form_displayed |-> self.form_displayed]

\* an exception leaves the handler: the step returns no FlowResult
Unhandled(self, raised, cur) ==
    [result |-> [type |-> "raised", reason |-> raised, errors |-> EmptyDict,
                 defaults |-> EmptyDict, title |-> NoStr, data |-> EmptyDict],
     entries |-> cur, unique_id |-> self.unique_id,
     form_displayed |-> self.form_displayed]

\* ShowForm keeping the errors back until the form has been displayed once
ShowFormHidesFirstErrors(self, user_input, errors, cur) ==
    [result |-> async_show_form(user_input,
                                IF self.form_displayed THEN errors ELSE EmptyDict),
     entries |-> cur, unique_id |-> self.unique_id, form_displayed |-> TRUE]

\* lines 148-177
ShowForm(self, user_input, errors, cur) ==
    [result |-> async_show_form(user_input, errors), entries |-> cur,
     unique_id |-> self.unique_id, form_displayed |-> TRUE]

ValidatingLog == {Logged("debug", "Validating input...")}

\* ExceptClause without the clause for UnsupportedRemootioDeviceError
ExceptClauseNoUnsupported(raised) ==
    CASE raised = "none" -> "else"
      [] raised = "MultipleInvalid" -> "MultipleInvalid"
      [] raised = "RemootioClientConnectionEstablishmentError" ->
             "RemootioClientConnectionEstablishmentError"
      [] raised = "RemootioClientAuthenticationError" ->
             "RemootioClientAuthenticationError"
      [] OTHER -> "Exception"

\* ExceptClause without the clause for RemootioClientAuthenticationError
ExceptClauseNoAuth(raised) ==
    CASE raised = "none" -> "else"
      [] raised = "UnsupportedRemootioDeviceError" -> "UnsupportedRemootioDeviceError"
      [] raised = "MultipleInvalid" -> "MultipleInvalid"
      [] raised = "RemootioClientConnectionEstablishmentError" ->
             "RemootioClientConnectionEstablishmentError"
      [] OTHER -> "Exception"

\* ExceptClause sending UnsupportedRemootioDeviceError on to the else branch
ExceptClauseUnsupportedPasses(raised) ==
    CASE raised \in {"none", "UnsupportedRemootioDeviceError"} -> "else"
      [] raised = "MultipleInvalid" -> "MultipleInvalid"
      [] raised = "RemootioClientConnectionEstablishmentError" ->
             "RemootioClientConnectionEstablishmentError"
      [] raised = "RemootioClientAuthenticationError" ->
             "RemootioClientAuthenticationError"
      [] OTHER -> "Exception"

\* ExceptClause without the closing except Exception
ExceptClauseNoBroad(raised) ==
    CASE raised = "none" -> "else"
      [] raised = "UnsupportedRemootioDeviceError" -> "UnsupportedRemootioDeviceError"
      [] raised = "MultipleInvalid" -> "MultipleInvalid"
      [] raised = "RemootioClientConnectionEstablishmentError" ->
             "RemootioClientConnectionEstablishmentError"
      [] raised = "RemootioClientAuthenticationError" ->
             "RemootioClientAuthenticationError"
      [] OTHER -> "propagates"

\* the clause of the try statement that takes over after validate_input: the
\* except clause matching what it raised, in the order written, or the else;
\* an exception no clause matches propagates out of the handler
ExceptClause(raised) ==
    CASE raised = "none" -> "else"
      [] raised = "UnsupportedRemootioDeviceError" -> "UnsupportedRemootioDeviceError"
      [] raised = "MultipleInvalid" -> "MultipleInvalid"
      [] raised = "RemootioClientConnectionEstablishmentError" ->
             "RemootioClientConnectionEstablishmentError"
      [] raised = "RemootioClientAuthenticationError" ->
             "RemootioClientAuthenticationError"
      [] OTHER -> "Exception"

\* IsSubmitted without the test of line 113
SubmittedAlways(user_input) == TRUE

\* line 113: something was submitted
IsSubmitted(user_input) == DOMAIN user_input # {}

\* one call of the handler on a flow `self` = [unique_id, form_displayed], with
\* the device behaving as `dev` and `cur` the persisted entries
async_step_user(self, raw, dev, cur) ==
    LET user_input == IF raw.is_none THEN EmptyDict ELSE raw.value
    IN IF ~IsSubmitted(user_input)
       THEN ShowForm(self, user_input, EmptyDict, cur)
                @@ [contact |-> <<>>, log |-> {}]
       ELSE LET v == validate_input(user_input, dev)
                clause == ExceptClause(v.raised)
            IN CASE clause = "UnsupportedRemootioDeviceError" ->
                        [result |-> async_abort("unsupported_device"), entries |-> cur,
                         unique_id |-> self.unique_id,
                         form_displayed |-> self.form_displayed,
                         contact |-> v.contact,
                         log |-> ValidatingLog
                                 \cup {Logged("debug", "Remootio device isn't supported.")}]
                 [] clause = "MultipleInvalid" ->
                        ShowForm(self, user_input, FieldErrors(v.errors), cur)
                            @@ [contact |-> v.contact,
                                log |-> ValidatingLog
                                        \cup {Logged("error", "Invalid user input.")}
                                        \cup {Logged("debug", k) : k \in DOMAIN v.errors}]
                 [] clause = "else" ->
                        Finish(self, user_input, v.info, cur)
                            @@ [contact |-> v.contact, log |-> ValidatingLog]
                 [] clause = "propagates" ->
                        Unhandled(self, v.raised, cur)
                            @@ [contact |-> v.contact, log |-> ValidatingLog]
                 [] OTHER ->
                        ShowForm(self, user_input,
                                 "base" :> BaseError(clause).code, cur)
                            @@ [contact |-> v.contact,
                                log |-> ValidatingLog \cup {BaseError(clause).logged}]

\* ------------------------------------------------------------ the flow

NoneInput == [is_none |-> TRUE, value |-> EmptyDict]

\* user_input: None or a dictionary
UserInputs == {NoneInput} \cup {[is_none |-> FALSE, value |-> d] : d \in Submitted}

\* no device was asked
NoDevice == [connect |-> "not_contacted", serial |-> NoStr]

NoCall == [user_input |-> NoneInput, device |-> NoDevice, entries |-> {}]

\* ConfigFlow.__init__
Init ==
    /\ entries = {}
    /\ result = NoResult
    /\ unique_id = NoStr
    /\ form_displayed = FALSE
    /\ call = NoCall
    /\ contact = <<>>
    /\ log = {}
    /\ steps = 0
    /\ flow_start = {}

\* the behaviours of the device a call can meet: the device's answer is drawn
\* when validate_input reaches get_serial_number, and a call that does not get
\* there meets none
DevicesMet(raw) ==
    IF validate_input(IF raw.is_none THEN EmptyDict ELSE raw.value, NoDevice).contact
           = <<>>
    THEN {NoDevice}
    ELSE Devices

\* the flow manager calls the step of a flow that has not finished; `call`
\* keeps the arguments, the entries persisted at the time and how the device
\* behaved
HandleStep(raw, dev) ==
    /\ result.type \in {"none", "form"}
    /\ steps < MaxSteps
    /\ LET self == [unique_id |-> unique_id, form_displayed |-> form_displayed]
           r == async_step_user(self, raw, dev, entries)
       IN /\ result' = r.result
          /\ entries' = r.entries
          /\ unique_id' = r.unique_id
          /\ form_displayed' = r.form_displayed
          /\ contact' = r.contact
          /\ log' = r.log
    /\ call' = [user_input |-> raw, device |-> dev, entries |-> entries]
    /\ steps' = steps + 1
    /\ UNCHANGED flow_start

\* a finished flow is discarded and the user starts another one
NewFlow ==
    /\ result.type \in {"abort", "create_entry"}
    /\ result' = NoResult
    /\ unique_id' = NoStr
    /\ form_displayed' = FALSE
    /\ call' = NoCall
    /\ contact' = <<>>
    /\ log' = {}
    /\ flow_start' = entries
    /\ UNCHANGED <<entries, steps>>

Next ==
    \/ \E raw \in UserInputs : \E dev \in DevicesMet(raw) : HandleStep(raw, dev)
    \/ NewFlow

Spec == Init /\ [][Next]_vars

\* ------------------------------------------------------------ the claims

\* the flow's last call has returned `result`
Called == result.type # "none"

\* the dictionary the last call worked on (user_input or {})
Input == IF call.user_input.is_none THEN EmptyDict ELSE call.user_input.value

RequiredFields == {CONF_HOST, CONF_API_SECRET_KEY, CONF_API_AUTH_KEY}

\* every required field is there and every field there passes its pattern
SyntaxValid(d) ==
    /\ RequiredFields \subseteq DOMAIN d
    /\ \A k \in SchemaFields \cap DOMAIN d : FieldValid(k, d[k])

\* the device connected and get_serial_number returned its serial number
SerialReturned ==
    /\ Called /\ SyntaxValid(Input)
    /\ call.device.connect = "ok"
    /\ call.device.serial \in SupportedSerials

Registered(cur, serial) == \E e \in cur : e.unique_id = serial

\* the device contact of the last call failed with `failure`
ContactFailed(failure) ==
    /\ Called /\ SyntaxValid(Input)
    /\ call.device.connect = failure

FormWithBase(code) ==
    /\ result.type = "form"
    /\ "base" \in DOMAIN result.errors
    /\ result.errors["base"] = code

\* C1: a call with valid input whose device connects and returns a supported
\* serial number S that no entry has ends in create_entry and adds exactly
\* one entry, with unique id S and a title containing the host and S
C1_EntryCreated ==
    (SerialReturned /\ ~Registered(call.entries, call.device.serial))
    => /\ result.type = "create_entry"
       /\ call.entries \subseteq entries
       /\ \E e \in entries \ call.entries :
              /\ entries \ call.entries = {e}
              /\ e.unique_id = call.device.serial
              /\ Contains(e.title, Input[CONF_HOST])
              /\ Contains(e.title, call.device.serial)

C1_Witness ==
    /\ SerialReturned /\ ~Registered(call.entries, call.device.serial)
    /\ call.entries # {}
    /\ result.type = "create_entry"
    /\ Cardinality(entries) = 2

\* C2: a call whose device returns a serial number that identifies a
\* persisted entry ends in abort with reason already_configured, and the
\* entries with that serial number remain one
C2_DuplicateAborts ==
    (SerialReturned /\ Registered(call.entries, call.device.serial))
    => /\ result.type = "abort"
       /\ result.reason = "already_configured"
       /\ Cardinality({e \in entries : e.unique_id = call.device.serial}) = 1
       /\ Cardinality(entries) = Cardinality(call.entries)

C2_Witness ==
    /\ SerialReturned /\ Registered(call.entries, call.device.serial)
    /\ result.reason = "already_configured"

\* C3: a call with valid input whose device reports a serial number the
\* capability lookup rejects ends in abort with reason unsupported_device,
\* and no entry is persisted
C3_UnsupportedAborts ==
    (Called /\ SyntaxValid(Input) /\ call.device.connect = "ok"
        /\ call.device.serial \notin SupportedSerials)
    => /\ result.type = "abort"
       /\ result.reason = "unsupported_device"
       /\ entries = call.entries

C3_Witness ==
    /\ Called /\ SyntaxValid(Input) /\ call.device.connect = "ok"
    /\ call.device.serial \notin SupportedSerials
    /\ result.reason = "unsupported_device"

\* C4: a call with valid input whose device client fails to establish the
\* connection returns the form with errors.base = cannot_connect and leaves
\* the persisted entries as they were
C4_CannotConnect ==
    ContactFailed("RemootioClientConnectionEstablishmentError")
    => FormWithBase("cannot_connect") /\ entries = call.entries

C4_Witness ==
    /\ ContactFailed("RemootioClientConnectionEstablishmentError")
    /\ FormWithBase("cannot_connect")
    /\ call.entries # {}

\* C5: a call with valid input whose device client fails to authenticate
\* returns the form with errors.base = invalid_auth
C5_InvalidAuth ==
    ContactFailed("RemootioClientAuthenticationError")
    => FormWithBase("invalid_auth")

C5_Witness ==
    /\ ContactFailed("RemootioClientAuthenticationError")
    /\ FormWithBase("invalid_auth")

\* C6: a call with valid input whose device contact fails in any other way
\* returns the form with errors.base = unknown, the failure is logged with
\* _LOGGER.exception, and the persisted entries are as they were
C6_Unknown ==
    ContactFailed("Exception")
    => /\ FormWithBase("unknown")
       /\ \E l \in log : l.level = "exception"
       /\ entries = call.entries

C6_Witness ==
    /\ ContactFailed("Exception")
    /\ FormWithBase("unknown")
    /\ Logged("exception", "Unexpected exception/error.") \in log

\* the required fields a dictionary lacks
Missing(d) == RequiredFields \ DOMAIN d

\* the fields a dictionary gives a value the field's pattern rejects
Mismatched(d) == {k \in SchemaFields \cap DOMAIN d : ~FieldValid(k, d[k])}

HasError(k, code) == k \in DOMAIN result.errors /\ result.errors[k] = code

\* C7: a call on a submitted (non-empty) dictionary that lacks a required
\* field returns the form with <field>_required for every field lacking and
\* <field>_invalid for every field whose pattern rejects it, in one error map
C7_AllFieldErrors ==
    (Called /\ DOMAIN Input # {} /\ Missing(Input) # {})
    => /\ result.type = "form"
       /\ \A k \in Missing(Input) : HasError(k, k \o "_required")
       /\ \A k \in Mismatched(Input) : HasError(k, k \o "_invalid")

C7_Witness ==
    /\ Called /\ DOMAIN Input # {}
    /\ Cardinality(Missing(Input)) = 2
    /\ Cardinality(Mismatched(Input)) = 2
    /\ result.type = "form"
    /\ DOMAIN result.errors = Missing(Input) \cup Mismatched(Input)

\* a key that is not 64 characters long or has a character that is neither
\* a letter nor a digit
KeySyntaxInvalid(v) ==
    Len(v) # KeyLen \/ \E i \in 1..Len(v) : v[i] \notin Alnum

\* a key of 64 digits and lower-case letters, with a letter among them
LowercaseKey(v) ==
    /\ Len(v) = KeyLen
    /\ \A i \in 1..Len(v) : v[i] \in LowerSet \cup Digits
    /\ \E i \in 1..Len(v) : v[i] \in LowerSet

\* the fields other than k are as the schema wants them
OthersValid(d, k) ==
    /\ (RequiredFields \ {k}) \subseteq DOMAIN d
    /\ \A j \in (SchemaFields \cap DOMAIN d) \ {k} : FieldValid(j, d[j])

SecretGiven == Called /\ CONF_API_SECRET_KEY \in DOMAIN Input

\* C8: a submitted secret_key of the wrong length or with a character that is
\* not alphanumeric gives the form with secret_key_invalid; a lower-case
\* secret_key of 64 alphanumeric characters gives no secret_key error, and
\* with the other fields passing too the call goes on to the device
C8_SecretKey ==
    /\ (SecretGiven /\ KeySyntaxInvalid(Input[CONF_API_SECRET_KEY]))
       => result.type = "form" /\ HasError(CONF_API_SECRET_KEY, "secret_key_invalid")
    /\ (SecretGiven /\ LowercaseKey(Input[CONF_API_SECRET_KEY]))
       => /\ CONF_API_SECRET_KEY \notin DOMAIN result.errors
          /\ OthersValid(Input, CONF_API_SECRET_KEY) => contact # <<>>

C8_Witness ==
    /\ SecretGiven /\ LowercaseKey(Input[CONF_API_SECRET_KEY])
    /\ contact # <<>>
    /\ result.type = "create_entry"

\* C9: with device_class left out of a submitted dictionary no device_class
\* error is reported and the entry persisted on success carries device_class
\* = garage; a device_class outside {garage, gate} gives device_class_invalid
C9_DeviceClassDefault ==
    /\ (Called /\ DOMAIN Input # {} /\ CONF_DEVICE_CLASS \notin DOMAIN Input)
       => /\ CONF_DEVICE_CLASS \notin DOMAIN result.errors
          /\ \A e \in entries \ call.entries :
                 /\ CONF_DEVICE_CLASS \in DOMAIN e.data
                 /\ e.data[CONF_DEVICE_CLASS] = DEVICE_CLASS_GARAGE
    /\ (Called /\ CONF_DEVICE_CLASS \in DOMAIN Input
           /\ Input[CONF_DEVICE_CLASS] \notin {DEVICE_CLASS_GARAGE, DEVICE_CLASS_GATE})
       => result.type = "form" /\ HasError(CONF_DEVICE_CLASS, "device_class_invalid")

\* C10: the device is contacted only in a call whose four fields all pass;
\* a call with a field lacking or rejected contacts no device and returns the
\* form, with the error map of exactly the failing fields when a dictionary
\* was submitted
C10_ContactAfterValidation ==
    Called
    => /\ contact # <<>> => SyntaxValid(Input)
       /\ ~SyntaxValid(Input)
          => /\ contact = <<>>
             /\ result.type = "form"
             /\ DOMAIN result.errors =
                    IF DOMAIN Input = {} THEN {}
                    ELSE Missing(Input) \cup Mismatched(Input)

C10_Witness ==
    /\ Called /\ RequiredFields \subseteq DOMAIN Input
    /\ Mismatched(Input) # {}
    /\ contact = <<>>
    /\ result.type = "form"
    /\ DOMAIN result.errors = Mismatched(Input)

\* C11: a call with user_input None or empty returns the form with an empty
\* error map, validates nothing (validate_input logs nothing), contacts no
\* device and leaves the persisted entries as they were
C11_InitialDisplay ==
    (Called /\ DOMAIN Input = {})
    => /\ result.type = "form"
       /\ result.errors = EmptyDict
       /\ log = {}
       /\ contact = <<>>
       /\ entries = call.entries

C11_Witness ==
    /\ Called /\ call.user_input.is_none
    /\ call.entries # {}
    /\ result.type = "form"
    /\ result.errors = EmptyDict

\* the keys of the data of a persisted entry
EntryKeys == SchemaFields \cup {CONF_SERIAL_NUMBER}

\* C12: fields the schema does not know are dropped silently: they give no
\* error, and the data of an entry persisted on success has exactly the keys
\* host, secret_key, auth_key, device_class and serial_number
C12_ExtraDropped ==
    Called
    => /\ DOMAIN result.errors \subseteq SchemaFields \cup {"base"}
       /\ \A e \in entries \ call.entries : DOMAIN e.data = EntryKeys

\* C13: a form returned after a submission has, for each of the four fields,
\* the submitted value as default; a field not submitted has no default,
\* except device_class whose default is then garage
C13_FormDefaults ==
    (Called /\ DOMAIN Input # {} /\ result.type = "form")
    => \A k \in SchemaFields :
           IF k \in DOMAIN Input
           THEN k \in DOMAIN result.defaults /\ result.defaults[k] = Input[k]
           ELSE IF k = CONF_DEVICE_CLASS
                THEN /\ k \in DOMAIN result.defaults
                     /\ result.defaults[k] = DEVICE_CLASS_GARAGE
                ELSE k \notin DOMAIN result.defaults

C13_Witness ==
    /\ Called /\ result.type = "form"
    /\ CONF_API_SECRET_KEY \in DOMAIN Input
    /\ LowercaseKey(Input[CONF_API_SECRET_KEY])
    /\ result.defaults[CONF_API_SECRET_KEY] = Input[CONF_API_SECRET_KEY]
    /\ CONF_API_AUTH_KEY \notin DOMAIN Input
    /\ CONF_API_AUTH_KEY \notin DOMAIN result.defaults
    /\ HasError(CONF_API_AUTH_KEY, "auth_key_required")

\* C14: the flow is in create_entry only if the call that reached it was on
\* a submitted dictionary whose fields all pass, the device connected and
\* returned a supported serial number, and no entry had that serial number
C14_CompletedOnlyOnSuccess ==
    result.type = "create_entry"
    => /\ DOMAIN Input # {}
       /\ SerialReturned
       /\ contact # <<>>
       /\ ~Registered(call.entries, call.device.serial)
       /\ unique_id = call.device.serial

C14_Witness ==
    /\ result.type = "create_entry"
    /\ SerialReturned
    /\ call.entries = {}
    /\ steps = 2

\* C15: every call, whatever the input and whatever validation and the
\* device do, ends in the form with an error map, in abort with reason
\* unsupported_device or already_configured, or in create_entry; no exception
\* leaves the handler
C15_NoEscape ==
    Called
    => /\ result.type \in {"form", "abort", "create_entry"}
       /\ result.type = "form"
          => DOMAIN result.errors \subseteq SchemaFields \cup {"base"}
       /\ result.type = "abort"
          => result.reason \in {"unsupported_device", "already_configured"}

C15_Witness ==
    /\ Called /\ SyntaxValid(Input)
    /\ call.device.connect = "Exception"
    /\ result.type = "form"
    /\ call.entries # {}

UniqueIds(cur) == {e.unique_id : e \in cur}

C17_KeysUppercased ==
    (Called /\ contact # <<>>)
    => /\ contact[1].api_secret_key = Upper(Input[CONF_API_SECRET_KEY])
       /\ contact[1].api_auth_key = Upper(Input[CONF_API_AUTH_KEY])
       /\ \A e \in entries \ call.entries :
              /\ e.data[CONF_API_SECRET_KEY] = Upper(Input[CONF_API_SECRET_KEY])
              /\ e.data[CONF_API_AUTH_KEY] = Upper(Input[CONF_API_AUTH_KEY])

C19_HistoryFree ==
    Called
    => LET fresh == async_step_user([unique_id |-> NoStr, form_displayed |-> FALSE],
                                    call.user_input, call.device, call.entries)
       IN /\ result = fresh.result
          /\ entries = fresh.entries
          /\ contact = fresh.contact
          /\ log = fresh.log

C19_Witness ==
    /\ form_displayed
    /\ steps = 2
    /\ result.type = "abort"
    /\ result.reason = "unsupported_device"

====
